---- MODULE Spec2Model ----
(***************************************************************************)
(* Model of the rock-paper-scissors GameServer of cmd/server/game.go and   *)
(* of the way cmd/server/ui.go drives it.                                  *)
(*                                                                         *)
(* Spec     : every operation of the GameServer is one step (the order in  *)
(*            which complete calls take effect).                           *)
(* SpecPairs: Spec for four players who never leave, for rounds of two     *)
(*            matchups.                                                    *)
(* SpecLeave: Spec with the RemovePlayer calls made so far kept per id.    *)
(* SpecConc : the same operations executed by concurrent connection        *)
(*            goroutines, with the mutex and the position of every call.   *)
(***************************************************************************)
EXTENDS Integers, Sequences, FiniteSets, TLC

\* ---------------------------------------------------------------- bounds
MaxPlayers == 3
MaxTime == 29
MaxLate == 1
\* The players of SpecPairs, where a round can hold two matchups.
MaxPlayersPairs == 4
\* SpecLeave runs the clock to the end of the second round's Picking.
MaxTimeLeave == 29
\* SpecLive runs the clock past the second round's Picking deadline.
MaxTimeLive == 29
\* SpecConc runs the clock to the start of the second round.
MaxTimeConc == 18

\* ------------------------------------------------------------- constants
MoveRock == 0
MovePaper == 1
MoveScissors == 2
PickingSeconds == 10
ReviewSeconds == 5
\* The zero time.Time a new GameServer holds in phaseDeadline.
ZeroTime == 0
\* A nil *Move / a nil *PlayerId, and the value read through a nil Winner.
Nil == -1

PhaseWaiting == "Waiting"
PhasePicking == "Picking"
PhaseReview == "Review"

Move == {MoveRock, MovePaper, MoveScissors}
PlayerId == 1..MaxPlayers
Phase == {PhaseWaiting, PhasePicking, PhaseReview}
\* The goroutines of SpecConc, one per connection.
Threads == {1, 2}

VARIABLES
    now,            \* what getNow() returns
    nextPlayerId,   \* GameServer.nextPlayerId
    players,        \* GameServer.players : PlayerId -> PlayerInfo
    matchups,       \* GameServer.matchups : sequence of Matchup
    winner,         \* the local `winner` of judge() that Matchup.Winner points to
    phase,          \* GameServer.phase
    phaseDeadline,  \* GameServer.phaseDeadline
    last,           \* the last call made: operation, arguments, what it found
    lock,           \* GameServer.lock : 0 when free, else the goroutine holding it
    pc,             \* SpecConc: the position of each goroutine
    local,          \* SpecConc: the locals of each goroutine's current call
    left            \* SpecLeave: per id, whether RemovePlayer was called with it

vars == <<now, nextPlayerId, players, matchups, winner, phase, phaseDeadline,
          last, lock, pc, local, left>>
game == <<nextPlayerId, players, matchups, winner, phase, phaseDeadline>>
conc == <<lock, pc, local>>

\* ------------------------------------------------------------ data types
PlayerInfo(id) == [PlayerId |-> id, Disconnected |-> FALSE, Rank |-> 0]

Matchup(a, b) == [Players |-> <<a, b>>, Moves |-> <<Nil, Nil>>, Winner |-> "nil"]

Beats(m, m2) ==
    CASE m = MoveRock -> m2 = MoveScissors
      [] m = MovePaper -> m2 = MoveRock
      [] m = MoveScissors -> m2 = MovePaper

\* op: the call; id, move: its arguments; prev: the move slot Pick found;
\* ok: whether GetState found the caller's record (line 164).
Last(op, id, mv, prev, ok) == [op |-> op, id |-> id, move |-> mv, prev |-> prev, ok |-> ok]

\* ------------------------------------------------------------- helpers
Perms(S) == {f \in [1..Cardinality(S) -> S] : \A i, j \in DOMAIN f : i # j => f[i] # f[j]}

\* The index of the first matchup holding playerId, 0 when there is none.
FindMatchup(ms, playerId) ==
    LET hit == {i \in DOMAIN ms : playerId \in {ms[i].Players[1], ms[i].Players[2]}}
    IN IF hit = {} THEN 0 ELSE CHOOSE i \in hit : \A j \in hit : i <= j

\* The slot of playerId in matchup m: Players[0] is tested first.
SlotOf(m, playerId) == IF m.Players[1] = playerId THEN 1 ELSE 2

\* ------------------------------------------------------ pure operations
\* A recordWin whose loop credits every record it passes.
RecordWinAll(ps, winnerId) == [id \in DOMAIN ps |-> [ps[id] EXCEPT !.Rank = @ + 1]]

\* recordWin: the record whose PlayerId is winnerId gets one more Rank.
RecordWin(ps, winnerId) ==
    [id \in DOMAIN ps |->
        IF ps[id].PlayerId = winnerId THEN [ps[id] EXCEPT !.Rank = @ + 1] ELSE ps[id]]

\* judge, lines 313 and 314 and 333: the player is in the map and has a move.
HasMove(ps, m, k) == m.Players[k] \in DOMAIN ps /\ m.Moves[k] # Nil

\* The winner judge finds for matchup m, Nil for recordDraw.
Outcome(ps, m) ==
    IF HasMove(ps, m, 1)
    THEN IF HasMove(ps, m, 2)
         THEN IF Beats(m.Moves[1], m.Moves[2]) THEN m.Players[1]
              ELSE IF Beats(m.Moves[2], m.Moves[1]) THEN m.Players[2]
              ELSE Nil
         ELSE m.Players[1]
    ELSE IF HasMove(ps, m, 2) THEN m.Players[2] ELSE Nil

\* One iteration of judge's loop on s = [players, matchups, winner].
\* winner = w; m.Winner = &winner; recordWin(w, ...)
JudgeOne(s, i) ==
    LET w == Outcome(s.players, s.matchups[i])
    IN IF w = Nil THEN s
       ELSE [players |-> RecordWin(s.players, w),
             matchups |-> [s.matchups EXCEPT ![i].Winner = "&winner"],
             winner |-> w]

RECURSIVE JudgeFrom(_, _)
JudgeFrom(s, i) == IF i > Len(s.matchups) THEN s ELSE JudgeFrom(JudgeOne(s, i), i + 1)

\* judge: `var winner PlayerId` starts at 0, then the loop.
Judge(ps, ms) == JudgeFrom([players |-> ps, matchups |-> ms, winner |-> 0], 1)

\* A resetPlayers that also sets the win counts of the players it keeps back to 0.
ResetPlayersRanks(ps) ==
    [id \in {i \in DOMAIN ps : ~ps[i].Disconnected} |-> [ps[id] EXCEPT !.Rank = 0]]

\* A resetPlayers that purges nobody.
ResetPlayersKeep(ps) == ps

\* resetPlayers: delete every disconnected record.
ResetPlayers(ps) == [id \in {i \in DOMAIN ps : ~ps[i].Disconnected} |-> ps[id]]

\* A pairing loop that steps by one: (ids[0], ids[1]), (ids[1], ids[2]), ...
PairUpSliding(ids) == [i \in 1..(Len(ids) - 1) |-> Matchup(ids[i], ids[i + 1])]

\* startRound's loop over the shuffled ids: (ids[0], ids[1]), (ids[2], ids[3]), ...
PairUp(ids) == [i \in 1..(Len(ids) \div 2) |-> Matchup(ids[2 * i - 1], ids[2 * i])]

\* A server that waits for a third player before the first round.
EnoughToStartThree(ps) == Cardinality(DOMAIN ps) >= 3

\* len(s.players) >= 2, in AddPlayer and at the end of Review.
EnoughToStart(ps) == Cardinality(DOMAIN ps) >= 2

\* A test at the end of Review that starts a round for a single player.
EnoughToContinueOne(ps) == Cardinality(DOMAIN ps) >= 1

EnoughToContinue(ps) == Cardinality(DOMAIN ps) >= 2

\* A lookup made in the registry the call found, before its transitions.
FoundBefore(before, after, playerId) == playerId \in DOMAIN before

\* player, ok := s.players[playerId], after the transitions: before holds the
\* registry the call found, after the one its transitions left.
Found(before, after, playerId) == playerId \in DOMAIN after

\* A deadline that has passed at the instant it is reached.
AfterOrAt(t, deadline) == t >= deadline

\* now.After(deadline)
After(t, deadline) == t > deadline

\* A Pick that writes a slot only while it is empty.
PickMovesOnce(ms, playerId, move) ==
    LET i == FindMatchup(ms, playerId)
    IN IF i = 0 \/ ms[i].Moves[SlotOf(ms[i], playerId)] # Nil THEN ms
       ELSE [ms EXCEPT ![i].Moves[SlotOf(ms[i], playerId)] = move]

\* Pick: the first matchup holding playerId gets the move in playerId's slot.
PickMoves(ms, playerId, move) ==
    LET i == FindMatchup(ms, playerId)
    IN IF i = 0 THEN ms
       ELSE [ms EXCEPT ![i].Moves[SlotOf(ms[i], playerId)] = move]

\* The move slot Pick would write, Nil when playerId is in no matchup.
MoveOf(ms, playerId) ==
    LET i == FindMatchup(ms, playerId)
    IN IF i = 0 THEN Nil ELSE ms[i].Moves[SlotOf(ms[i], playerId)]

\* ------------------------------------------------------- the view built
\* sort.Slice by PlayerId: the records in ascending PlayerId order (the ids of a
\* map are distinct, so the order the map iteration gave them in does not show).
ById(ps) ==
    [k \in 1..Cardinality(DOMAIN ps) |->
        ps[CHOOSE i \in DOMAIN ps :
              Cardinality({j \in DOMAIN ps : ps[j].PlayerId < ps[i].PlayerId}) = k - 1]]

\* A comparison that puts the fewest wins first.
RankLessAscending(x, y) == x.Rank < y.Rank

\* less(i, j) of the second sort: rankings[j].Rank < rankings[i].Rank
RankLess(x, y) == y.Rank < x.Rank

\* sort.SliceStable by less: seq[i] goes behind the elements that are less than
\* it and behind the earlier elements that it is not less than.
StableSort(seq) ==
    LET place(i) == 1 + Cardinality({j \in DOMAIN seq :
                                        \/ RankLess(seq[j], seq[i])
                                        \/ j < i /\ ~RankLess(seq[i], seq[j])})
    IN [k \in DOMAIN seq |-> seq[CHOOSE i \in DOMAIN seq : place(i) = k]]

Rankings(ps) == StableSort(ById(ps))

\* The opponent's record as GetState copies it: <<>> for a nil *PlayerInfo.
OpponentOf(ps, ms, playerId) ==
    LET i == FindMatchup(ms, playerId)
        o == IF i = 0 THEN Nil ELSE ms[i].Players[3 - SlotOf(ms[i], playerId)]
    IN IF i = 0 \/ o \notin DOMAIN ps THEN <<>> ELSE <<ps[o]>>

\* Lines 164-251 of GetState, on the state the transitions left: the registry
\* ps, the matchups ms whose Winner cell holds w, the phase ph with deadline dl,
\* at clock reading t.
ViewOf(ps, ms, w, ph, dl, t, playerId) ==
    IF ~Found(ps, ps, playerId) THEN [err |-> TRUE]
    ELSE LET i == FindMatchup(ms, playerId)
             opp == OpponentOf(ps, ms, playerId)
         IN [err |-> FALSE,
             Player |-> ps[playerId],
             Phase |-> ph,
             TimeLeftInPhase |-> IF ph # PhaseWaiting THEN dl - t ELSE 0,
             PlayerMove |-> MoveOf(ms, playerId),
             Opponent |-> opp,
             OpponentMove |-> IF opp = <<>> THEN Nil ELSE MoveOf(ms, opp[1].PlayerId),
             Winner |-> IF i = 0 \/ ms[i].Winner = "nil" THEN Nil ELSE w,
             Rankings |-> Rankings(ps)]

\* What GetState(playerId) returns in the current state.
View(playerId) == ViewOf(players, matchups, winner, phase, phaseDeadline, now, playerId)

\* What it returns in the state a step leaves.
ViewNext(playerId) ==
    ViewOf(players', matchups', winner', phase', phaseDeadline', now', playerId)

\* ------------------------------------------------------------ the calls
\* startRound(t) with the ids in the order the map iteration and the shuffle left.
\* The cell `winner` of the last judge call is no longer referenced: it is reset.
StartRound(ids, t) ==
    /\ matchups' = PairUp(ids)
    /\ winner' = 0
    /\ phase' = PhasePicking
    /\ phaseDeadline' = t + PickingSeconds

\* AddPlayer, while fewer than cap players have ever joined.
AddPlayerBody(cap) ==
    /\ nextPlayerId <= cap
    /\ LET id == nextPlayerId
           ps == [p \in DOMAIN players \cup {id} |->
                     IF p = id THEN PlayerInfo(id) ELSE players[p]]
       IN /\ nextPlayerId' = nextPlayerId + 1
          /\ players' = ps
          /\ IF phase = PhaseWaiting /\ EnoughToStart(ps)
             THEN \E ids \in Perms(DOMAIN ps) : StartRound(ids, now)
             ELSE UNCHANGED <<matchups, winner, phase, phaseDeadline>>

\* A RemovePlayer that flips the mark instead of setting it.
RemoveFromToggle(ps, ph, playerId) ==
    IF ph = PhaseWaiting
    THEN [p \in DOMAIN ps \ {playerId} |-> ps[p]]
    ELSE IF playerId \in DOMAIN ps
         THEN [ps EXCEPT ![playerId].Disconnected = ~@]
         ELSE ps

\* A RemovePlayer that deletes the record in every phase.
RemoveFromNow(ps, ph, playerId) == [p \in DOMAIN ps \ {playerId} |-> ps[p]]

\* The registry RemovePlayer leaves.
RemoveFrom(ps, ph, playerId) ==
    IF ph = PhaseWaiting
    THEN [p \in DOMAIN ps \ {playerId} |-> ps[p]]
    ELSE IF playerId \in DOMAIN ps
         THEN [ps EXCEPT ![playerId].Disconnected = TRUE]
         ELSE ps

RemovePlayerBody(playerId) ==
    /\ players' = RemoveFrom(players, phase, playerId)
    /\ UNCHANGED <<nextPlayerId, matchups, winner, phase, phaseDeadline>>

\* Lines 146-151 of GetState: judge, then Review for five seconds.
PickingToReview ==
    LET j == Judge(players, matchups)
    IN /\ players' = j.players
       /\ matchups' = j.matchups
       /\ winner' = j.winner
       /\ phase' = PhaseReview
       /\ phaseDeadline' = now + ReviewSeconds

\* Lines 152-161 of GetState: purge, then the next round or Waiting.
ReviewToNext ==
    LET ps == ResetPlayers(players)
    IN /\ players' = ps
       /\ IF EnoughToContinue(ps)
          THEN \E ids \in Perms(DOMAIN ps) : StartRound(ids, now)
          ELSE /\ matchups' = <<>>
               /\ winner' = 0
               /\ phase' = PhaseWaiting
               /\ UNCHANGED phaseDeadline

\* A GetState that answers without making the transitions first.
TransitionNone == UNCHANGED <<players, matchups, winner, phase, phaseDeadline>>

\* Lines 141-162 of GetState: the time-based transitions.
Transition ==
    CASE phase = PhasePicking /\ After(now, phaseDeadline) -> PickingToReview
      [] phase = PhaseReview /\ After(now, phaseDeadline) -> ReviewToNext
      [] OTHER -> UNCHANGED <<players, matchups, winner, phase, phaseDeadline>>

\* GetState: the transitions; what it returns to playerId is View(playerId) after them.
GetStateBody(playerId) ==
    /\ Transition
    /\ UNCHANGED nextPlayerId

PickBody(playerId, move) ==
    /\ matchups' = PickMoves(matchups, playerId, move)
    /\ UNCHANGED <<nextPlayerId, players, winner, phase, phaseDeadline>>

\* The locals of a connection's goroutine: id is ui.playerId, now the `now` of
\* its GetState, i the loop index of judge or the matchup Pick found, seen
\* whether the view GetState returned lets Update offer the buttons, move the
\* argument of Pick, stale whether the Matchup Pick found has since been
\* dropped from s.matchups.
NoCall == [id |-> Nil, now |-> ZeroTime, i |-> 0, seen |-> FALSE, move |-> Nil, stale |-> FALSE]

\* --------------------------------------------------- Spec: whole calls
Init ==
    /\ now = ZeroTime + 1
    /\ nextPlayerId = 1
    /\ players = <<>>
    /\ matchups = <<>>
    /\ winner = 0
    /\ phase = PhaseWaiting
    /\ phaseDeadline = ZeroTime
    /\ last = Last("NewGameServer", Nil, Nil, Nil, TRUE)
    /\ lock = 0
    /\ pc = [t \in Threads |-> "connect"]
    /\ local = [t \in Threads |-> NoCall]
    /\ left = [id \in PlayerId |-> "never"]

AddPlayer ==
    /\ AddPlayerBody(MaxPlayers)
    /\ last' = Last("AddPlayer", nextPlayerId, Nil, Nil, TRUE)
    /\ UNCHANGED <<now, conc, left>>

RemovePlayer ==
    \E id \in PlayerId :
        /\ RemovePlayerBody(id)
        /\ last' = Last("RemovePlayer", id, Nil, Nil, TRUE)
        /\ UNCHANGED <<now, conc, left>>

\* GetState(id): the transitions, then the lookup of the caller; what it returns
\* is View(id) of the state it leaves.
GetState ==
    \E id \in PlayerId :
        /\ GetStateBody(id)
        /\ last' = Last("GetState", id, Nil, Nil, Found(players, players', id))
        /\ UNCHANGED <<now, conc, left>>

Pick ==
    \E id \in PlayerId, mv \in Move :
        /\ PickBody(id, mv)
        /\ last' = Last("Pick", id, mv, MoveOf(matchups, id), TRUE)
        /\ UNCHANGED <<now, conc, left>>

\* The clock readings calls are made at: the deadline itself and up to MaxLate
\* seconds past it. While Waiting no deadline is pending and the clock is not moved.
ClockTo(bound) ==
    /\ phase # PhaseWaiting
    /\ \E t \in {phaseDeadline + k : k \in 0..MaxLate} :
          /\ t > now
          /\ t <= bound
          /\ now' = t
    /\ last' = Last("Tick", Nil, Nil, Nil, TRUE)
    /\ UNCHANGED <<game, conc, left>>

Tick == ClockTo(MaxTime)

Next == AddPlayer \/ RemovePlayer \/ GetState \/ Pick \/ Tick

Spec == Init /\ [][Next]_vars

\* ------------------------- SpecPairs: four players, nobody leaves, and
\* `last` keeps the operation only
PlayerIdPairs == 1..MaxPlayersPairs

AddPlayerPairs ==
    /\ AddPlayerBody(MaxPlayersPairs)
    /\ last' = Last("AddPlayer", Nil, Nil, Nil, TRUE)
    /\ UNCHANGED <<now, conc, left>>

GetStatePairs ==
    \E id \in PlayerIdPairs :
        /\ GetStateBody(id)
        /\ last' = Last("GetState", Nil, Nil, Nil, TRUE)
        /\ UNCHANGED <<now, conc, left>>

PickPairs ==
    \E id \in PlayerIdPairs, mv \in Move :
        /\ PickBody(id, mv)
        /\ last' = Last("Pick", Nil, Nil, Nil, TRUE)
        /\ UNCHANGED <<now, conc, left>>

NextPairs == AddPlayerPairs \/ GetStatePairs \/ PickPairs \/ Tick

SpecPairs == Init /\ [][NextPairs]_vars

\* ------------------- SpecLeave: as Spec, with the RemovePlayer calls made
\* so far kept per id: "never" called, called only "early" (before AddPlayer
\* assigned the id), or called after the id was "assigned". `last` keeps the
\* operation only, and for RemovePlayer the id and whether it was the first call
\* with the assigned id.
AddPlayerLeave ==
    /\ AddPlayerBody(MaxPlayers)
    /\ last' = Last("AddPlayer", Nil, Nil, Nil, TRUE)
    /\ UNCHANGED <<now, conc, left>>

RemovePlayerLeave ==
    \E id \in PlayerId :
        /\ RemovePlayerBody(id)
        /\ left' = [left EXCEPT ![id] = IF id < nextPlayerId THEN "assigned"
                                        ELSE IF @ = "never" THEN "early" ELSE @]
        /\ last' = Last("RemovePlayer", id, Nil, Nil, left[id] # "assigned")
        /\ UNCHANGED <<now, conc>>

GetStateLeave ==
    \E id \in PlayerId :
        /\ GetStateBody(id)
        /\ last' = Last("GetState", Nil, Nil, Nil, TRUE)
        /\ UNCHANGED <<now, conc, left>>

PickLeave ==
    \E id \in PlayerId, mv \in Move :
        /\ PickBody(id, mv)
        /\ last' = Last("Pick", Nil, Nil, Nil, TRUE)
        /\ UNCHANGED <<now, conc, left>>

TickLeave == ClockTo(MaxTimeLeave)

NextLeave == AddPlayerLeave \/ RemovePlayerLeave \/ GetStateLeave \/ PickLeave \/ TickLeave

SpecLeave == Init /\ [][NextLeave]_vars

\* ------------------- SpecLive: the calls of SpecLeave (`last` keeps the
\* operation only) with a clock that keeps advancing and a GetState that keeps
\* being called: nothing but a GetState call makes a transition, and the callers
\* are the clients' update loops (UI.Update, on every message of a connection).
RemovePlayerLive ==
    \E id \in PlayerId :
        /\ RemovePlayerBody(id)
        /\ last' = Last("RemovePlayer", Nil, Nil, Nil, TRUE)
        /\ UNCHANGED <<now, conc, left>>

TickLive == ClockTo(MaxTimeLive)

NextLive == AddPlayerLeave \/ RemovePlayerLive \/ GetStateLeave \/ PickLeave \/ TickLive

SpecLive ==
    /\ Init
    /\ [][NextLive]_vars
    /\ WF_vars(TickLive)
    /\ WF_vars(GetStateLeave)

\* ------------------------------ SpecConc: goroutines, mutex, positions
\* Each goroutine serves one connection as rfbServe does: NewUI calls AddPlayer,
\* every message calls UI.Update, which calls GetState and then, when the view
\* shows Picking with an opponent and a button was clicked, Pick; Close calls
\* RemovePlayer. AddPlayer, RemovePlayer and GetState take s.lock; Pick does not.
Goto(t, where) == pc' = [pc EXCEPT ![t] = where]

\* s.matchups is replaced: the Matchup a Pick in flight has found is no longer in it.
Dropped(loc) ==
    [u \in Threads |-> IF pc[u] = "PickWrite" THEN [loc[u] EXCEPT !.stale = TRUE] ELSE loc[u]]

\* rfbServe line 110, AddPlayer line 101: s.lock.Lock()
Connect(t) ==
    /\ pc[t] = "connect"
    /\ nextPlayerId <= MaxPlayers
    /\ lock = 0
    /\ lock' = t
    /\ Goto(t, "AddPlayer")
    /\ UNCHANGED <<now, game, last, local, left>>

\* AddPlayer lines 104-118 and the deferred Unlock
AddPlayerRun(t) ==
    /\ pc[t] = "AddPlayer"
    /\ AddPlayerBody(MaxPlayers)
    /\ local' = [Dropped(local) EXCEPT ![t] = [NoCall EXCEPT !.id = nextPlayerId]]
    /\ lock' = 0
    /\ Goto(t, "idle")
    /\ UNCHANGED <<now, last, left>>

\* rfbServe line 111, RemovePlayer line 122: s.lock.Lock()
Disconnect(t) ==
    /\ pc[t] = "idle"
    /\ lock = 0
    /\ lock' = t
    /\ Goto(t, "RemovePlayer")
    /\ UNCHANGED <<now, game, last, local, left>>

\* RemovePlayer lines 125-134 and the deferred Unlock; the goroutine ends and
\* the next connection gets a new one.
RemovePlayerRun(t) ==
    /\ pc[t] = "RemovePlayer"
    /\ RemovePlayerBody(local[t].id)
    /\ local' = [local EXCEPT ![t] = NoCall]
    /\ lock' = 0
    /\ Goto(t, "connect")
    /\ UNCHANGED <<now, last, left>>

\* A GetState that goes on without waiting for the lock to be free.
GetStateNoLock(t) ==
    /\ pc[t] = "idle"
    /\ lock' = t
    /\ local' = [local EXCEPT ![t].now = now]
    /\ Goto(t, "GetState")
    /\ UNCHANGED <<now, game, last, left>>

\* UI.Update line 39, GetState lines 138-141: Lock, then now := s.getNow()
GetStateLock(t) ==
    /\ pc[t] = "idle"
    /\ lock = 0
    /\ lock' = t
    /\ local' = [local EXCEPT ![t].now = now]
    /\ Goto(t, "GetState")
    /\ UNCHANGED <<now, game, last, left>>

\* GetState lines 144-153: the switch on s.phase; judge starts with winner = 0
GetStateSwitch(t) ==
    /\ pc[t] = "GetState"
    /\ IF phase = PhasePicking /\ After(local[t].now, phaseDeadline)
       THEN /\ winner' = 0
            /\ local' = [local EXCEPT ![t].i = 1]
            /\ Goto(t, "judge")
       ELSE /\ Goto(t, IF phase = PhaseReview /\ After(local[t].now, phaseDeadline)
                       THEN "resetPlayers" ELSE "lookup")
            /\ UNCHANGED <<winner, local>>
    /\ UNCHANGED <<now, nextPlayerId, players, matchups, phase, phaseDeadline, last, lock, left>>

\* One iteration of judge's loop, and lines 149-150 after the last one
JudgeStep(t) ==
    /\ pc[t] = "judge"
    /\ IF local[t].i <= Len(matchups)
       THEN LET j == JudgeOne([players |-> players, matchups |-> matchups,
                               winner |-> winner], local[t].i)
            IN /\ players' = j.players
               /\ matchups' = j.matchups
               /\ winner' = j.winner
               /\ local' = [local EXCEPT ![t].i = @ + 1]
               /\ UNCHANGED <<phase, phaseDeadline, pc>>
       ELSE /\ phase' = PhaseReview
            /\ phaseDeadline' = local[t].now + ReviewSeconds
            /\ local' = [local EXCEPT ![t].i = 0]
            /\ Goto(t, "lookup")
            /\ UNCHANGED <<players, matchups, winner>>
    /\ UNCHANGED <<now, nextPlayerId, last, lock, left>>

\* GetState lines 154-155: resetPlayers, then the test of len(s.players)
ResetStep(t) ==
    /\ pc[t] = "resetPlayers"
    /\ players' = ResetPlayers(players)
    /\ Goto(t, IF EnoughToContinue(players') THEN "startRound" ELSE "toWaiting")
    /\ UNCHANGED <<now, nextPlayerId, matchups, winner, phase, phaseDeadline, last, lock, local, left>>

\* GetState line 156: startRound(now)
StartStep(t) ==
    /\ pc[t] = "startRound"
    /\ \E ids \in Perms(DOMAIN players) : StartRound(ids, local[t].now)
    /\ local' = Dropped(local)
    /\ Goto(t, "lookup")
    /\ UNCHANGED <<now, nextPlayerId, players, last, lock, left>>

\* GetState lines 158-159
WaitStep(t) ==
    /\ pc[t] = "toWaiting"
    /\ matchups' = <<>>
    /\ winner' = 0
    /\ phase' = PhaseWaiting
    /\ local' = Dropped(local)
    /\ Goto(t, "lookup")
    /\ UNCHANGED <<now, nextPlayerId, players, phaseDeadline, last, lock, left>>

\* GetState lines 164-251 and the deferred Unlock; UI.Update lines 40-42 and
\* 60-69: the buttons are offered when the view shows Picking with an opponent.
LookupStep(t) ==
    /\ pc[t] = "lookup"
    /\ LET v == ViewOf(players, matchups, winner, phase, phaseDeadline,
                       local[t].now, local[t].id)
       IN local' = [local EXCEPT ![t].seen =
                        /\ ~v.err
                        /\ v.Phase = PhasePicking
                        /\ v.Opponent # <<>>]
    /\ lock' = 0
    /\ Goto(t, "Update")
    /\ UNCHANGED <<now, game, last, left>>

\* UI.Update lines 74-82: a clicked button calls Pick, otherwise Update returns.
UpdateStep(t) ==
    /\ pc[t] = "Update"
    /\ \/ /\ local[t].seen
          /\ \E mv \in Move : local' = [local EXCEPT ![t].move = mv, ![t].seen = FALSE]
          /\ Goto(t, "Pick")
       \/ /\ local' = [local EXCEPT ![t].seen = FALSE]
          /\ Goto(t, "idle")
    /\ UNCHANGED <<now, game, last, lock, left>>

\* Pick lines 255-259: the range over s.matchups finds the caller's Matchup.
PickRange(t) ==
    /\ pc[t] = "Pick"
    /\ LET i == FindMatchup(matchups, local[t].id)
       IN IF i = 0
          THEN /\ local' = [local EXCEPT ![t].move = Nil]
               /\ Goto(t, "idle")
          ELSE /\ local' = [local EXCEPT ![t].i = i, ![t].stale = FALSE]
               /\ Goto(t, "PickWrite")
    /\ UNCHANGED <<now, game, last, lock, left>>

\* Pick's read of the slice s.matchups while the holder of the lock is about to
\* assign it (startRound line 298, GetState line 158): the three words of the
\* slice header are read while they are written, a nil pointer with the old
\* length is dereferenced, and the panic ends the process.
PickTornRead(t) ==
    /\ pc[t] = "Pick"
    /\ \E u \in Threads : pc[u] \in {"startRound", "toWaiting"}
    /\ Len(matchups) > 0
    /\ pc' = [u \in Threads |-> "panic"]
    /\ UNCHANGED <<now, game, last, lock, local, left>>

\* Pick lines 257 and 260: m.Moves[k] = &move, on the Matchup found
PickWrite(t) ==
    /\ pc[t] = "PickWrite"
    /\ IF local[t].stale
       THEN UNCHANGED matchups
       ELSE matchups' = [matchups EXCEPT
                ![local[t].i].Moves[SlotOf(matchups[local[t].i], local[t].id)] = local[t].move]
    /\ local' = [local EXCEPT ![t].i = 0, ![t].move = Nil, ![t].stale = FALSE]
    /\ Goto(t, "idle")
    /\ UNCHANGED <<now, nextPlayerId, players, winner, phase, phaseDeadline, last, lock, left>>

TickConc == ClockTo(MaxTimeConc)

NextConc ==
    \/ \E t \in Threads :
          \/ Connect(t)
          \/ AddPlayerRun(t)
          \/ Disconnect(t)
          \/ RemovePlayerRun(t)
          \/ GetStateLock(t)
          \/ GetStateSwitch(t)
          \/ JudgeStep(t)
          \/ ResetStep(t)
          \/ StartStep(t)
          \/ WaitStep(t)
          \/ LookupStep(t)
          \/ UpdateStep(t)
          \/ PickRange(t)
          \/ PickTornRead(t)
          \/ PickWrite(t)
    \/ TickConc

SpecConc == Init /\ [][NextConc]_vars

\* ================================================================ claims
Registered == DOMAIN players
Connected == {p \in Registered : ~players[p].Disconnected}
Paired(ms) == UNION {{ms[i].Players[1], ms[i].Players[2]} : i \in DOMAIN ms}
\* A matchup set as startRound leaves it for the registry ids: consecutive pairs
\* of distinct registered players, no move, no winner.
FreshRound(ms, ids) ==
    /\ Len(ms) = Cardinality(ids) \div 2
    /\ \A i \in DOMAIN ms :
          /\ ms[i].Moves = <<Nil, Nil>>
          /\ ms[i].Winner = "nil"
          /\ ms[i].Players[1] # ms[i].Players[2]
          /\ {ms[i].Players[1], ms[i].Players[2]} \subseteq ids
    /\ \A i, j \in DOMAIN ms :
          i # j => {ms[i].Players[1], ms[i].Players[2]}
                      \cap {ms[j].Players[1], ms[j].Players[2]} = {}

\* C1: the phase is Waiting exactly while fewer than 2 players are registered,
\* and Waiting is left for Picking only in the AddPlayer call that registers the
\* 2nd player, which pairs the two and sets the deadline to now + 10 s.
C1_SecondJoinStartsRound ==
    [][/\ phase' = PhaseWaiting <=> Cardinality(DOMAIN players') < 2
       /\ phase = PhaseWaiting /\ last'.op = "AddPlayer" =>
            IF Cardinality(DOMAIN players') < 2
            THEN phase' = PhaseWaiting /\ matchups' = <<>>
            ELSE /\ Cardinality(DOMAIN players') = 2
                 /\ phase' = PhasePicking
                 /\ FreshRound(matchups', DOMAIN players')
                 /\ Len(matchups') = 1
                 /\ phaseDeadline' = now + PickingSeconds
       /\ phase = PhaseWaiting /\ phase' # PhaseWaiting =>
            last'.op = "AddPlayer" /\ phase' = PhasePicking]_vars

C1_Witness ==
    /\ last.op = "AddPlayer"
    /\ Cardinality(Registered) = 2
    /\ phase = PhasePicking
    /\ Len(matchups) = 1
    /\ phaseDeadline = now + PickingSeconds

\* C2: Pick runs in the critical section of the other operations: while a
\* goroutine is inside Pick, between finding the caller's matchup and writing
\* the move, no other goroutine holds the lock (none is inside AddPlayer,
\* RemovePlayer or GetState, in particular judging or starting a round).
C2_PickInCriticalSection ==
    \A t, u \in Threads : (pc[t] = "PickWrite" /\ u # t) => lock # u

ClaimBeats == {<<MoveRock, MoveScissors>>, <<MoveScissors, MovePaper>>, <<MovePaper, MoveRock>>}

TableWinner(m) ==
    IF m.Moves[1] # Nil /\ m.Moves[2] # Nil
    THEN IF <<m.Moves[1], m.Moves[2]>> \in ClaimBeats THEN m.Players[1]
         ELSE IF <<m.Moves[2], m.Moves[1]>> \in ClaimBeats THEN m.Players[2]
         ELSE Nil
    ELSE IF m.Moves[1] # Nil THEN m.Players[1]
    ELSE IF m.Moves[2] # Nil THEN m.Players[2]
    ELSE Nil

\* C4: at the Picking->Review transition every matchup gets the winner of the
\* table (none for a draw or when nobody moved) and that winner, and nobody
\* else of the matchup, gets exactly one more win.
C4_JudgedByTable ==
    [][phase = PhasePicking /\ phase' = PhaseReview =>
          \A i \in DOMAIN matchups :
              LET w == TableWinner(matchups[i])
              IN /\ (IF matchups'[i].Winner = "nil" THEN Nil ELSE winner') = w
                 /\ \A k \in 1..2 :
                       LET p == matchups[i].Players[k]
                       IN players'[p].Rank = players[p].Rank + (IF p = w THEN 1 ELSE 0)]_vars

\* C5: during Review the winner GetState reports to a paired player comes from
\* that player's own matchup: it is absent or one of its two participants (as
\* the participant credited the win of the matchup must be).
C5_WinnerOfOwnMatchup ==
    phase = PhaseReview =>
        \A h \in Registered :
            LET i == FindMatchup(matchups, h)
            IN i # 0 => View(h).Winner
                           \in {Nil, matchups[i].Players[1], matchups[i].Players[2]}

\* C6: a Pick by a player in no matchup, or made while the phase is Waiting or
\* Review, leaves the session unchanged: the caller's slot holds what it held.
C6_PickInertOutsideWindow ==
    last.op = "Pick" /\ (phase # PhasePicking \/ FindMatchup(matchups, last.id) = 0) =>
        MoveOf(matchups, last.id) = last.prev

\* C7: a GetState that finds Review with the deadline passed purges the
\* disconnected players (the rest keep their records) and then goes straight to
\* Picking with a fresh matchup set and deadline now + 10 s when at least 2
\* remain, and to Waiting with no matchups otherwise.
C7_ReviewDeadlinePassed ==
    [][last'.op = "GetState" /\ phase = PhaseReview /\ now > phaseDeadline =>
          /\ DOMAIN players' = Connected
          /\ \A p \in Connected : players'[p] = players[p]
          /\ IF Cardinality(Connected) >= 2
             THEN /\ phase' = PhasePicking
                  /\ FreshRound(matchups', Connected)
                  /\ phaseDeadline' = now + PickingSeconds
             ELSE /\ phase' = PhaseWaiting
                  /\ matchups' = <<>>]_vars

\* A new round started by GetState after somebody was purged.
C7_Witness ==
    /\ last.op = "GetState"
    /\ phase = PhasePicking
    /\ phaseDeadline = now + PickingSeconds
    /\ now > PickingSeconds + ReviewSeconds
    /\ Cardinality(Registered) = 2
    /\ nextPlayerId = 4
    /\ Len(matchups) = 1

\* The two players of the scenario: P1 and P2 registered, connected and paired.
TwoPaired ==
    /\ Registered = {1, 2}
    /\ Connected = {1, 2}
    /\ Len(matchups) = 1
    /\ Paired(matchups) = {1, 2}

\* C8 (as stated): a query made at the instant the reported time left of Review
\* reaches 0 (5 s after Review began) leaves Review.
C8_LeavesReviewAtZero ==
    last.op = "GetState" /\ TwoPaired /\ now >= phaseDeadline => phase # PhaseReview

\* C8 (amended): the query 11 s after the round started reports Review with
\* exactly 5 s left; a query at the instant the time left reaches 0 still
\* reports Review, with 0 s left; the first query after that instant leaves
\* Review and re-enters Picking with P1 and P2 paired again.
C8_TwoPlayerTiming ==
    [][last'.op = "GetState" /\ TwoPaired =>
          /\ phase = PhasePicking /\ now = phaseDeadline + 1 =>
                /\ phase' = PhaseReview
                /\ \A h \in {1, 2} : ViewNext(h).Phase = PhaseReview
                                     /\ ViewNext(h).TimeLeftInPhase = ReviewSeconds
          /\ phase = PhaseReview /\ now = phaseDeadline =>
                /\ phase' = PhaseReview
                /\ \A h \in {1, 2} : ViewNext(h).TimeLeftInPhase = 0
          /\ phase = PhaseReview /\ now > phaseDeadline =>
                /\ phase' = PhasePicking
                /\ TwoPaired'
                /\ \A h \in {1, 2} : ViewNext(h).Opponent # <<>>
                                     /\ ViewNext(h).Opponent[1].PlayerId = 3 - h]_vars

\* P1 and P2 paired again by the query after the Review deadline.
C8_Witness ==
    /\ last.op = "GetState"
    /\ TwoPaired
    /\ nextPlayerId = 3
    /\ phase = PhasePicking
    /\ now = ZeroTime + 1 + (PickingSeconds + 1) + (ReviewSeconds + 1)
    /\ phaseDeadline = now + PickingSeconds

\* The opponent of h in h's matchup.
OpponentId(ms, h) ==
    LET i == FindMatchup(ms, h) IN ms[i].Players[3 - SlotOf(ms[i], h)]

RankingIds(ps) == LET r == Rankings(ps) IN {r[k].PlayerId : k \in DOMAIN r}

\* C9: RemovePlayer(h) during Picking or Review keeps h's record, marked
\* disconnected, and the matchups; the opponent of a disconnected player keeps
\* getting that player as opponent; the transition after the Review deadline
\* leaves h in no registry, matchup or ranking, and the phase Waiting when at
\* most one player remains.
C9_DeferredLeave ==
    /\ [][last'.op = "RemovePlayer" /\ phase # PhaseWaiting /\ last'.id \in Registered =>
            /\ DOMAIN players' = Registered
            /\ players'[last'.id].Disconnected
            /\ matchups' = matchups
            /\ phase' = phase]_vars
    /\ [](\A h \in Registered \ Connected :
            (phase # PhaseWaiting /\ FindMatchup(matchups, h) # 0) =>
                LET o == OpponentId(matchups, h)
                IN /\ ~View(o).err
                   /\ View(o).Opponent = <<players[h]>>)
    /\ [][last'.op = "GetState" /\ phase = PhaseReview /\ now > phaseDeadline =>
            /\ \A h \in Registered \ Connected :
                  /\ h \notin DOMAIN players'
                  /\ h \notin Paired(matchups')
                  /\ h \notin RankingIds(players')
            /\ (Cardinality(Connected) <= 1 => phase' = PhaseWaiting)]_vars
    /\ [](Paired(matchups) \subseteq Registered /\ RankingIds(players) = Registered)

\* The player left alone after the opponent, gone mid-round, was purged.
C9_Witness ==
    /\ last.op = "GetState"
    /\ phase = PhaseWaiting
    /\ Cardinality(Registered) = 1
    /\ nextPlayerId = 3
    /\ phaseDeadline > ZeroTime

\* C10: GetState(h) fails exactly when h is not in the registry its own
\* transitions left, and otherwise returns a view whose Player is h's record.
C10_UnknownPlayer ==
    last.op = "GetState" =>
        /\ last.ok <=> last.id \in Registered
        /\ View(last.id).err <=> ~last.ok
        /\ last.ok => View(last.id).Player = players[last.id]
                      /\ View(last.id).Player.PlayerId = last.id

\* GetState fails for the caller that its own call purged.
C10_Witness ==
    /\ last.op = "GetState"
    /\ ~last.ok
    /\ last.id < nextPlayerId
    /\ phaseDeadline = now + PickingSeconds
    /\ now > PickingSeconds + ReviewSeconds

\* C11: the view a GetState returns has TimeLeftInPhase 0 in Waiting, between
\* 0 and 10 s in Picking and between 0 and 5 s in Review: it is the time from
\* the call's clock reading to the deadline and is never negative.
C11_TimeLeftInRange ==
    last.op = "GetState" /\ last.ok =>
        LET v == View(last.id)
        IN /\ v.Phase = phase
           /\ v.Phase = PhaseWaiting => v.TimeLeftInPhase = 0
           /\ v.Phase = PhasePicking =>
                 /\ v.TimeLeftInPhase = phaseDeadline - now
                 /\ v.TimeLeftInPhase \in 0..PickingSeconds
           /\ v.Phase = PhaseReview =>
                 /\ v.TimeLeftInPhase = phaseDeadline - now
                 /\ v.TimeLeftInPhase \in 0..ReviewSeconds

\* A query that saw the passed Picking deadline and answers from Review.
C11_Witness ==
    /\ last.op = "GetState"
    /\ last.ok
    /\ phase = PhaseReview
    /\ View(last.id).TimeLeftInPhase = ReviewSeconds
    /\ now > ZeroTime + 1 + PickingSeconds

\* C12: the rankings of every view hold each registered player's record exactly
\* once, by descending win count and, among equal win counts, by ascending id;
\* they are a function of the registry, so equal states give equal orders.
C12_RankingsOrder ==
    \A h \in Registered :
        LET r == View(h).Rankings
        IN /\ Len(r) = Cardinality(Registered)
           /\ \A p \in Registered : \E k \in DOMAIN r : r[k] = players[p]
           /\ \A k \in DOMAIN r : r[k].PlayerId \in Registered
           /\ \A i, j \in DOMAIN r :
                 i < j => \/ r[i].Rank > r[j].Rank
                          \/ r[i].Rank = r[j].Rank /\ r[i].PlayerId < r[j].PlayerId
           /\ r = Rankings(players)

\* Three players, the last to join ahead of two who are tied.
C12_Witness ==
    /\ Cardinality(Registered) = 3
    /\ LET r == Rankings(players)
       IN /\ r[1].PlayerId > r[2].PlayerId
          /\ r[2].Rank = r[3].Rank
          /\ r[1].Rank > r[2].Rank

\* The registered players no matchup of the current round holds.
SittingOut == Registered \ Paired(matchups)

\* C13: during a round a registered player in no matchup gets a view with no
\* opponent, no own move, no opponent move and no winner, and stays out of the
\* matchups for the whole round; a Pick by a player in no matchup changes
\* nothing; the judging leaves that player's win count as it was.
C13_SittingOut ==
    /\ [](phase # PhaseWaiting =>
            \A h \in SittingOut :
                LET v == View(h)
                IN /\ ~v.err
                   /\ v.Opponent = <<>>
                   /\ v.PlayerMove = Nil
                   /\ v.OpponentMove = Nil
                   /\ v.Winner = Nil)
    /\ [][(phase # PhaseWaiting /\ phase' = phase) =>
              Paired(matchups') = Paired(matchups)]_vars
    /\ [][(last'.op = "Pick" /\ last'.id \notin Paired(matchups)) =>
              UNCHANGED game]_vars
    /\ [][(phase = PhasePicking /\ phase' = PhaseReview) =>
              \A h \in SittingOut :
                  h \in DOMAIN players' /\ players'[h].Rank = players[h].Rank]_vars

\* The third player queries in Review, after the round of the other two was
\* decided.
C13_Witness ==
    /\ last.op = "GetState"
    /\ phase = PhaseReview
    /\ Cardinality(Registered) = 3
    /\ last.id \in SittingOut
    /\ \E i \in DOMAIN matchups : matchups[i].Winner # "nil"

ShownWinner(ms, w, i) == IF ms[i].Winner = "nil" THEN Nil ELSE w

\* A step that ends the round: it starts the next one or goes to Waiting.
RoundEnds ==
    \/ phase # PhasePicking /\ phase' = PhasePicking
    \/ phase # PhaseWaiting /\ phase' = PhaseWaiting

\* C15: judging runs once per round. At most one goroutine is in judge, holding
\* the lock, in Picking; judge is entered only while no matchup of the round has
\* a winner and it visits the matchups one after the other; a Winner, once
\* set, stays set, and outside judge the winner a matchup shows does not change
\* until the round ends; a win count changes only by judge's visit of the
\* player's matchup, and by exactly 1.
C15_JudgedOnce ==
    /\ [](\A t, u \in Threads :
            /\ pc[t] = "judge" => (phase = PhasePicking /\ lock = t)
            /\ (pc[t] = "judge" /\ pc[u] = "judge") => t = u)
    /\ [][\A t \in Threads :
            /\ (pc[t] # "judge" /\ pc'[t] = "judge") =>
                  /\ phase = PhasePicking
                  /\ After(local[t].now, phaseDeadline)
                  /\ local'[t].i = 1
                  /\ \A i \in DOMAIN matchups : matchups[i].Winner = "nil"
            /\ (pc[t] = "judge" /\ pc'[t] = "judge") =>
                  local'[t].i \in {local[t].i, local[t].i + 1}
            /\ (pc[t] = "judge" /\ pc'[t] \notin {"judge", "panic"}) =>
                  (local[t].i > Len(matchups) /\ phase' = PhaseReview)]_vars
    /\ [][~RoundEnds =>
            \A i \in DOMAIN matchups :
                /\ i \in DOMAIN matchups'
                /\ matchups[i].Winner # "nil" => matchups'[i].Winner = matchups[i].Winner
                /\ (\A t \in Threads : pc[t] # "judge") =>
                      ShownWinner(matchups', winner', i) = ShownWinner(matchups, winner, i)]_vars
    /\ [][\A p \in Registered \cap DOMAIN players' :
            players'[p].Rank # players[p].Rank =>
                /\ players'[p].Rank = players[p].Rank + 1
                /\ \E t \in Threads :
                      /\ pc[t] = "judge"
                      /\ local[t].i \in DOMAIN matchups
                      /\ p = Outcome(players, matchups[local[t].i])]_vars

\* Both goroutines have called GetState past the Picking deadline: one has
\* judged and left Review behind it, the other is about to look at the phase.
C15_Witness ==
    /\ phase = PhaseReview
    /\ \E i \in DOMAIN matchups : matchups[i].Winner # "nil"
    /\ \E t \in Threads :
          /\ pc[t] = "GetState"
          /\ local[t].now >= phaseDeadline - ReviewSeconds
    /\ \E p \in Registered : players[p].Rank = 1

\* C16 (as stated): the phase deadline is set exactly when the phase is not
\* Waiting; a session in Waiting has the zero deadline.
C16_DeadlineSetIffNotWaiting ==
    phaseDeadline # ZeroTime <=> phase # PhaseWaiting

\* C17: in Waiting there are no matchups and at most one registered player,
\* who is not marked disconnected; in Picking and Review there is at least one
\* matchup.
C17_MatchupsAndPhase ==
    /\ phase = PhaseWaiting =>
          /\ matchups = <<>>
          /\ Cardinality(Registered) <= 1
          /\ Connected = Registered
    /\ phase \in {PhasePicking, PhaseReview} => Len(matchups) >= 1

\* Waiting again after a round that both players left.
C17_Witness ==
    /\ phase = PhaseWaiting
    /\ last.op = "GetState"
    /\ Registered = {}
    /\ phaseDeadline > ZeroTime
    /\ matchups = <<>>

\* C18: the two players of a matchup are distinct and no player is in two
\* matchups; the step that starts a round with n registered players leaves
\* n \div 2 matchups of registered players, so at most one of them is unpaired.
C18_DisjointPairs ==
    /\ [](\A i, j \in DOMAIN matchups :
            /\ matchups[i].Players[1] # matchups[i].Players[2]
            /\ i # j => {matchups[i].Players[1], matchups[i].Players[2]}
                          \cap {matchups[j].Players[1], matchups[j].Players[2]} = {})
    /\ [][(phase # PhasePicking /\ phase' = PhasePicking) =>
            LET n == Cardinality(DOMAIN players')
            IN /\ Len(matchups') = n \div 2
               /\ Paired(matchups') \subseteq DOMAIN players'
               /\ Cardinality(Paired(matchups')) = 2 * (n \div 2)
               /\ Cardinality(DOMAIN players' \ Paired(matchups')) <= 1]_vars

\* A round of four players in two matchups.
C18_Witness ==
    /\ phase = PhasePicking
    /\ Cardinality(Registered) = 4
    /\ Len(matchups) = 2
    /\ Paired(matchups) = Registered

\* C19: every player a matchup names is in the registry: GetState finds the
\* opponent's record of every paired caller, judge finds both players of every
\* matchup, and a step that removes a record leaves no matchup naming it.
C19_MatchupPlayersRegistered ==
    /\ [](\A i \in DOMAIN matchups : \A k \in 1..2 :
            /\ matchups[i].Players[k] \in Registered
            /\ HasMove(players, matchups[i], k) <=> matchups[i].Moves[k] # Nil
            /\ OpponentOf(players, matchups, matchups[i].Players[k])
                  = <<players[matchups[i].Players[3 - k]]>>)
    /\ [][\A p \in Registered \ DOMAIN players' : p \notin Paired(matchups')]_vars

\* A round judged while one of its players, disconnected, is still registered.
C19_Witness ==
    /\ last.op = "GetState"
    /\ phase = PhaseReview
    /\ \E h \in Registered \ Connected :
          /\ h \in Paired(matchups)
          /\ View(OpponentId(matchups, h)).Opponent = <<players[h]>>

\* C20: a record is created with win count 0, by AddPlayer; the win count of a
\* record that a step keeps never decreases, and it changes only in the GetState
\* step that judges, from Picking past the deadline into Review.
C20_WinsMonotonic ==
    [][\A p \in DOMAIN players' :
          IF p \in Registered
          THEN /\ players'[p].Rank >= players[p].Rank
               /\ players'[p].Rank # players[p].Rank =>
                     /\ last'.op = "GetState"
                     /\ phase = PhasePicking
                     /\ phase' = PhaseReview
                     /\ After(now, phaseDeadline)
          ELSE /\ players'[p].Rank = 0
               /\ last'.op = "AddPlayer"]_vars

\* A win of the first round kept into the second round.
C20_Witness ==
    /\ last.op = "GetState"
    /\ phase = PhasePicking
    /\ phaseDeadline = now + PickingSeconds
    /\ \E p \in Registered : players[p].Rank >= 1

\* C21: with the clock advancing and GetState being called, a session in
\* Picking reaches Review and a session in Review reaches Picking or Waiting,
\* whoever is still connected (for the deadlines the clock of the model passes).
C21_NoStuckPhase ==
    /\ (phase = PhasePicking /\ phaseDeadline < MaxTimeLive) ~> (phase = PhaseReview)
    /\ (phase = PhaseReview /\ phaseDeadline < MaxTimeLive)
           ~> (phase \in {PhasePicking, PhaseWaiting})

\* Waiting reached from a round that both of its players left while it ran.
C21_Witness ==
    /\ last.op = "GetState"
    /\ phase = PhaseWaiting
    /\ phaseDeadline > ZeroTime
    /\ Registered = {}
    /\ nextPlayerId = 3

====
